---- MODULE Spec2Model ----
(***************************************************************************)
(* Model of improver/spotdata/read_input.py: the Load plugin, the          *)
(* prerequisite resolver get_method_prerequisites, the diagnostic finder   *)
(* get_additional_diagnostics and the accessor data_from_dictionary.       *)
(*                                                                         *)
(* A Python str is a sequence of symbols (each symbol a short piece of     *)
(* text), so that substring tests and message formatting are computed.     *)
(* A path is a str whose components are joined by the symbol "/".          *)
(***************************************************************************)
EXTENDS Naturals, Sequences, FiniteSets, TLC

VARIABLES fs, pc, call, result, log, additional_diagnostics, idx, dictionary_data

vars == <<fs, pc, call, result, log, additional_diagnostics, idx, dictionary_data>>

(* ------------------------------ strings ------------------------------- *)

\* Python's None where a str is expected (time_extract, diagnostic).
None == <<"<None>">>

\* Python's `sub in s` for two str: sub is a contiguous part of s.
Contains(s, sub) ==
  \E i \in 0..Len(s) :
    /\ i + Len(sub) <= Len(s)
    /\ SubSeq(s, i + 1, i + Len(sub)) = sub

\* '<pre>{}'.format(arg)
Format0(pre, arg) == <<pre>> \o arg

\* '<pre>{}<post>'.format(arg)
Format1(pre, arg, post) == <<pre>> \o arg \o <<post>>

\* '<pre>{}<mid>{}<post>'.format(arg1, arg2)
Format2(pre, arg1, mid, arg2, post) == <<pre>> \o arg1 \o <<mid>> \o arg2 \o <<post>>

\* os.path.join(dirpath, filename)
PathJoin(dirpath, filename) == dirpath \o <<"/">> \o filename

(* ----------------------- names used by the code ----------------------- *)

temperature_on_height_levels == <<"temperature", "_on_height_levels">>
pressure_on_height_levels == <<"pressure", "_on_height_levels">>
surface_pressure == <<"surface_", "pressure">>

LapseRateMethod == "model_level_temperature_lapse_rate"

\* The list get_method_prerequisites builds for the one method it knows.
LapseRateDiagnostics ==
  <<temperature_on_height_levels, pressure_on_height_levels, surface_pressure>>

(* --------------------------- the file system -------------------------- *)

\* Files per directory listing.
MaxFiles == 2

RootPath == <<"data">>
NoSuchPath == <<"nowhere">>
DirectoryArgs == {RootPath, NoSuchPath}

FileNames ==
  { <<"foo_", "temperature", "_on_height_levels", ".nc">>,
    <<"foo_", "pressure", "_on_height_levels", ".nc">>,
    <<"foo_", "surface_", "pressure", ".nc">>,
    <<"foo_", "Pressure", "_on_height_levels", ".nc">> }

\* The name of the subdirectory; it contains a diagnostic name.
DirNames == { <<"pressure", "_on_height_levels">> }

\* A directory listing: distinct file names in the order the OS lists them.
Listings ==
  UNION { { l \in [1..n -> FileNames] : \A i, j \in 1..n : i # j => l[i] # l[j] }
          : n \in 0..MaxFiles }

Leaves == { [files |-> l, dirs |-> <<>>] : l \in Listings }

\* The tree under RootPath: its own listing and at most one subdirectory.
Trees ==
  { [files |-> l, dirs |-> d] :
      l \in Listings,
      d \in {<<>>} \cup { <<[name |-> n, tree |-> t]>> : n \in DirNames, t \in Leaves } }

\* The file system: RootPath is a directory holding a tree, or does not exist.
FileSystems ==
  { [exists |-> TRUE, tree |-> t] : t \in Trees }
    \cup { [exists |-> FALSE, tree |-> [files |-> <<>>, dirs |-> <<>>]] }

RECURSIVE Walk(_, _)
RECURSIVE WalkDirs(_, _, _)

\* os.walk(top) on an existing directory, top-down: the directory itself,
\* then each subdirectory in turn; each entry is (dirpath, dirnames, files).
Walk(top, tree) ==
  << [dirpath |-> top,
      dirnames |-> [i \in 1..Len(tree.dirs) |-> tree.dirs[i].name],
      files |-> tree.files] >>
    \o WalkDirs(top, tree.dirs, 1)

WalkDirs(top, dirs, i) ==
  IF i > Len(dirs) THEN <<>>
  ELSE Walk(PathJoin(top, dirs[i].name), dirs[i].tree) \o WalkDirs(top, dirs, i + 1)

\* os.walk(path): nothing for a path that is no directory (errors ignored).
OsWalk(filesystem, path) ==
  IF filesystem.exists /\ path = RootPath THEN Walk(path, filesystem.tree) ELSE <<>>

(* --------------------------- loaded datasets -------------------------- *)

\* The cubes the external library can produce, each with its time.
Cubes == { [id |-> "cube1", time |-> <<"t1">>], [id |-> "cube2", time |-> <<"t2">>] }

TimeConstraints == { <<"t1">>, <<"t2">> }

\* A CubeList: none of the cubes, one of them, or both in time order.
CubeLists ==
  {<<>>} \cup { <<c>> : c \in Cubes }
    \cup { l \in { <<c, d>> : c \in Cubes, d \in Cubes } :
             l[1].id = "cube1" /\ l[2].id = "cube2" }

\* What one call of the external load primitive does: raise, or yield cubes.
PrimOutcomes ==
  { [raises |-> TRUE, cubes |-> <<>>] }
    \cup { [raises |-> FALSE, cubes |-> cs] : cs \in CubeLists }

\* CubeList.extract(constraint): the cubes at the constraint's time, in order.
Extract(cubes, time_extract) == SelectSeq(cubes, LAMBDA c : c.time = time_extract)

(* ------------------------------ outcomes ------------------------------ *)

\* A call's outcome: a returned value of a Python type, or a raised exception.
Return(type, value) == [status |-> "return", type |-> type, value |-> value, msg |-> <<>>]
Raise(type, msg) == [status |-> "raise", type |-> type, value |-> <<>>, msg |-> msg]
NoResult == [status |-> "none", type |-> "", value |-> <<>>, msg |-> <<>>]

\* Events a call leaves in the log.
WalkEvent(path) ==
  [ev |-> "os.walk", method |-> "", filepath |-> <<path>>, diagnostic |-> None]
ProcessEvent(method, filepath, diagnostic) ==
  [ev |-> "Load.process", method |-> method, filepath |-> filepath, diagnostic |-> diagnostic]
PrimEvent(fn, filepath, diagnostic, ret) ==
  [ev |-> fn, method |-> "", filepath |-> filepath, diagnostic |-> diagnostic,
   ret |-> ret]
FindEvent(name, ret) ==
  [ev |-> "get_additional_diagnostics", method |-> "", filepath |-> <<name>>,
   diagnostic |-> None, ret |-> ret]

(* ------------------------------ class Load ---------------------------- *)

\* What getattr(self, name) finds on a Load instance: the instance attribute
\* `method` (a str), the methods and static methods of the class, or nothing.
\* nargs is the number of arguments the attribute accepts when called.
LoadAttribute(name) ==
  CASE name = "method"      -> [kind |-> "str", fn |-> "", nargs |-> 0]
    [] name = "__init__"    -> [kind |-> "method", fn |-> "__init__", nargs |-> 1]
    [] name = "__repr__"    -> [kind |-> "method", fn |-> "__repr__", nargs |-> 0]
    [] name = "process"     -> [kind |-> "method", fn |-> "process", nargs |-> 2]
    [] name = "single_file" -> [kind |-> "staticmethod", fn |-> "load_cube", nargs |-> 2]
    [] name = "multi_file"  -> [kind |-> "staticmethod", fn |-> "load", nargs |-> 2]
    [] OTHER                -> [kind |-> "absent", fn |-> "", nargs |-> 0]

\* The AttributeError of Load.process.
UnknownMethodMessage(method) ==
  Format2("Unknown method \"", <<method>>, "\" passed to ", <<"Load">>, ".")

\* iris.load_cube: exactly one cube, or an error; iris.load: the CubeList.
Primitive(fn, prim) ==
  IF prim.raises THEN Raise("LoadError", <<>>)
  ELSE IF fn = "load" THEN Return("CubeList", prim.cubes)
  ELSE IF Len(prim.cubes) = 1 THEN Return("Cube", prim.cubes[1])
  ELSE Raise("ConstraintMismatchError", <<>>)

\* function(filepath, diagnostic) for the attribute getattr returned.  Calling
\* the bound method process again recurses without end, which Python stops
\* with a RecursionError raised outside the try block.
CallAttribute(attr, filepath, diagnostic, prim) ==
  IF attr.kind = "staticmethod"
  THEN [result |-> Primitive(attr.fn, prim),
        log |-> <<PrimEvent(attr.fn, filepath, diagnostic, Primitive(attr.fn, prim))>>]
  ELSE IF attr.kind = "method" /\ attr.fn = "process"
  THEN [result |-> Raise("RecursionError", <<>>), log |-> <<>>]
  ELSE [result |-> Raise("TypeError", <<>>), log |-> <<>>]

\* Load(method).process(filepath, diagnostic)
LoadProcess(method, filepath, diagnostic, prim) ==
  LET attr == LoadAttribute(method)
      called == CallAttribute(attr, filepath, diagnostic, prim)
  IN  IF attr.kind = "absent"
      THEN [result |-> Raise("AttributeError", UnknownMethodMessage(method)),
            log |-> <<ProcessEvent(method, filepath, diagnostic)>>]
      ELSE [result |-> called.result,
            log |-> <<ProcessEvent(method, filepath, diagnostic)>> \o called.log]

(* --------------------- get_additional_diagnostics --------------------- *)

\* Qualifies with the test made on the joined path instead of the file name.
QualifiesFullPath(dirpath, filename, diagnostic_name) ==
  Contains(PathJoin(dirpath, filename), diagnostic_name)

\* The filter of the comprehension: `diagnostic_name in filename`.
Qualifies(dirpath, filename, diagnostic_name) == Contains(filename, diagnostic_name)

\* The qualifying files of one walk entry, joined to its dirpath, in order.
Matching(entry, diagnostic_name) ==
  LET sel == SelectSeq(entry.files,
                       LAMBDA f : Qualifies(entry.dirpath, f, diagnostic_name))
  IN  [i \in 1..Len(sel) |-> PathJoin(entry.dirpath, sel[i])]

RECURSIVE FilesToRead(_, _)

\* files_to_read: the comprehension over os.walk's entries, in walk order.
FilesToRead(walk, diagnostic_name) ==
  IF Len(walk) = 0 THEN <<>>
  ELSE Matching(Head(walk), diagnostic_name) \o FilesToRead(Tail(walk), diagnostic_name)

\* NotFoundMessage formatted with the diagnostic name instead of the directory.
NotFoundMessageOfDiagnostic(diagnostic_name, diagnostic_data_path) ==
  Format1("No relevant data files found in ", diagnostic_name, ".")

\* The IOError raised when files_to_read is empty.
NotFoundMessage(diagnostic_name, diagnostic_data_path) ==
  Format1("No relevant data files found in ", diagnostic_data_path, ".")

\* The ValueError raised when the extraction leaves nothing.
NoMatchMessage(time_extract) == Format0("No diagnostics match ", time_extract)

\* FinderLoad with the diagnostic name passed on as the load's constraint.
FinderLoadConstrained(files_to_read, diagnostic_name, prim) ==
  LoadProcess("multi_file", files_to_read, diagnostic_name, prim)

\* The load through the Load plugin.
FinderLoad(files_to_read, diagnostic_name, prim) ==
  LoadProcess("multi_file", files_to_read, None, prim)

\* FinderFinish with the emptiness test kept and the full CubeList returned.
FinderFinishUnfiltered(cubes, time_extract) ==
  IF time_extract # None /\ Len(Extract(cubes, time_extract)) = 0
  THEN Raise("ValueError", NoMatchMessage(time_extract))
  ELSE Return("CubeList", cubes)

\* The tail of the function, from the loaded cubes to the return.
FinderFinish(cubes, time_extract) ==
  IF time_extract # None
  THEN IF Len(Extract(cubes, time_extract)) = 0
       THEN Raise("ValueError", NoMatchMessage(time_extract))
       ELSE Return("CubeList", Extract(cubes, time_extract))
  ELSE Return("CubeList", cubes)

\* get_additional_diagnostics(diagnostic_name, diagnostic_data_path, time_extract)
GetAdditionalDiagnostics(filesystem, diagnostic_name, diagnostic_data_path, time_extract, prim) ==
  LET files_to_read == FilesToRead(OsWalk(filesystem, diagnostic_data_path),
                                   diagnostic_name)
      walked == <<WalkEvent(diagnostic_data_path)>>
      loaded == FinderLoad(files_to_read, diagnostic_name, prim)
  IN  IF Len(files_to_read) = 0
      THEN [result |-> Raise("IOError",
                             NotFoundMessage(diagnostic_name, diagnostic_data_path)),
            log |-> walked]
      ELSE IF loaded.result.status = "raise"
      THEN [result |-> loaded.result, log |-> walked \o loaded.log]
      ELSE [result |-> FinderFinish(loaded.result.value, time_extract),
            log |-> walked \o loaded.log]

(* ------------------------------- state -------------------------------- *)

\* The call a caller makes: the function and its arguments (None where the
\* function has no such argument).
CallOf(op, method, name, path, time_extract) ==
  [op |-> op, method |-> method, name |-> name, path |-> path,
   time_extract |-> time_extract]

NoCall == CallOf("", "", None, None, None)

InitCall ==
  /\ pc = "idle"
  /\ call = NoCall
  /\ result = NoResult
  /\ log = <<>>
  /\ additional_diagnostics = <<>>
  /\ idx = 0
  /\ dictionary_data = [type |-> "dict", items |-> <<>>]

Init ==
  /\ fs \in FileSystems
  /\ InitCall

DiagnosticNames ==
  {temperature_on_height_levels, pressure_on_height_levels, surface_pressure}

\* A caller runs get_additional_diagnostics(name, path, time_extract).
CallFind ==
  /\ pc = "idle"
  /\ \E name \in DiagnosticNames, path \in DirectoryArgs,
        time_extract \in TimeConstraints \cup {None}, prim \in PrimOutcomes :
       LET r == GetAdditionalDiagnostics(fs, name, path, time_extract, prim)
       IN  /\ call' = CallOf("get_additional_diagnostics", "", name, path, time_extract)
           /\ result' = r.result
           /\ log' = r.log
  /\ pc' = "done"
  /\ UNCHANGED <<fs, additional_diagnostics, idx, dictionary_data>>

(* ---------------------- get_method_prerequisites ---------------------- *)

Methods == { LapseRateMethod, "", "nearest_grid_point", "MODEL_LEVEL_TEMPERATURE_LAPSE_RATE" }

\* RequiredDiagnostics with a test that also accepts another spelling.
RequiredDiagnosticsAnyCase(method) ==
  IF method \in {LapseRateMethod, "MODEL_LEVEL_TEMPERATURE_LAPSE_RATE"}
  THEN [known |-> TRUE, diagnostics |-> LapseRateDiagnostics]
  ELSE [known |-> FALSE, diagnostics |-> <<>>]

\* The `if method == ...` of get_method_prerequisites: the diagnostics list,
\* or the early `return None`.
RequiredDiagnostics(method) ==
  IF method = LapseRateMethod
  THEN [known |-> TRUE, diagnostics |-> LapseRateDiagnostics]
  ELSE [known |-> FALSE, diagnostics |-> <<>>]

\* SetItem with every entry bound to the value just stored.
SetItemShared(dict, item, value) ==
  [k \in DOMAIN dict \cup {item} |-> value]

\* additional_diagnostics[item] = value
SetItem(dict, item, value) ==
  [k \in DOMAIN dict \cup {item} |-> IF k = item THEN value ELSE dict[k]]

\* A caller runs get_method_prerequisites(method, path), up to the loop.
CallResolve ==
  /\ pc = "idle"
  /\ \E method \in Methods, path \in DirectoryArgs :
       /\ call' = CallOf("get_method_prerequisites", method, None, path, None)
       /\ IF RequiredDiagnostics(method).known
          THEN /\ pc' = "loop"
               /\ idx' = 1
               /\ result' = NoResult
          ELSE /\ pc' = "done"
               /\ idx' = 0
               /\ result' = Return("NoneType", <<>>)
  /\ log' = <<>>
  /\ additional_diagnostics' = <<>>
  /\ UNCHANGED <<fs, dictionary_data>>

\* LoopNext with a failed lookup skipped instead of propagated.
LoopNextSkipping(dict, diagnostics, i, found) ==
  IF i = Len(diagnostics)
  THEN [pc |-> "done",
        result |-> Return("dict", IF found.status = "raise" THEN dict
                                  ELSE SetItem(dict, diagnostics[i], found.value)),
        dict |-> dict, idx |-> i + 1]
  ELSE [pc |-> "loop", result |-> NoResult,
        dict |-> IF found.status = "raise" THEN dict
                 ELSE SetItem(dict, diagnostics[i], found.value),
        idx |-> i + 1]

\* What one pass of the loop does with the outcome of the finder.
LoopNext(dict, diagnostics, i, found) ==
  IF found.status = "raise"
  THEN [pc |-> "done", result |-> found, dict |-> dict, idx |-> i]
  ELSE IF i = Len(diagnostics)
  THEN [pc |-> "done",
        result |-> Return("dict", SetItem(dict, diagnostics[i], found.value)),
        dict |-> SetItem(dict, diagnostics[i], found.value), idx |-> i + 1]
  ELSE [pc |-> "loop", result |-> NoResult,
        dict |-> SetItem(dict, diagnostics[i], found.value), idx |-> i + 1]

\* One pass of `for item in diagnostics`, and the return after the last.
ResolveStep ==
  /\ pc = "loop"
  /\ \E prim \in PrimOutcomes :
       LET diagnostics == RequiredDiagnostics(call.method).diagnostics
           item == diagnostics[idx]
           r == GetAdditionalDiagnostics(fs, item, call.path, None, prim)
           n == LoopNext(additional_diagnostics, diagnostics, idx, r.result)
       IN  /\ log' = log \o r.log \o <<FindEvent(item, r.result)>>
           /\ pc' = n.pc
           /\ result' = n.result
           /\ additional_diagnostics' = n.dict
           /\ idx' = n.idx
  /\ UNCHANGED <<fs, call, dictionary_data>>

(* ----------------------------- Load.process --------------------------- *)

Tags ==
  { "single_file", "multi_file", "bogus_mode", "", "process", "method",
    "__repr__", "__init__" }

SomePath == PathJoin(RootPath, <<"foo_", "surface_", "pressure", ".nc">>)
OtherPath == PathJoin(RootPath, <<"foo_", "temperature", "_on_height_levels", ".nc">>)

\* filepath arguments: lists of paths.
FilePathArgs == { <<SomePath>>, <<OtherPath>>, <<SomePath, OtherPath>> }

\* A caller runs Load(method).process(filepath, diagnostic).
CallProcess ==
  /\ pc = "idle"
  /\ \E method \in Tags, filepath \in FilePathArgs,
        diagnostic \in DiagnosticNames \cup {None}, prim \in PrimOutcomes :
       LET r == LoadProcess(method, filepath, diagnostic, prim)
       IN  /\ call' = CallOf("Load.process", method, diagnostic, None, None)
           /\ result' = r.result
           /\ log' = r.log
  /\ pc' = "done"
  /\ UNCHANGED <<fs, additional_diagnostics, idx, dictionary_data>>

(* ------------------------- data_from_dictionary ----------------------- *)

Keys == { <<"orography">>, <<"land_mask">>, <<"timezone">> }
Values == { <<"cube_a">>, <<"cube_b">> }

\* The dictionaries a caller may hold: any part of Keys mapped to Values.
Dicts == UNION { [ks -> Values] : ks \in SUBSET Keys }

\* First arguments: a dict, or a value of another type with the same content.
DictionaryArgs ==
  { [type |-> t, items |-> d] : t \in {"dict", "list", "NoneType"}, d \in Dicts }

\* The KeyError of data_from_dictionary.
MissingKeyMessage(key) == Format1("Data ", key, " not found in dictionary.")

\* DataFromDictionary with the entry taken out of the dict (pop).
DataFromDictionaryPop(dict, key) ==
  IF dict.type # "dict"
  THEN [result |-> Raise("TypeError",
                         <<"Invalid type sent to data_from_dictionary - ",
                           "Not a dictionary.">>),
        after |-> dict]
  ELSE IF key \in DOMAIN dict.items
  THEN [result |-> Return("object", dict.items[key]),
        after |-> [dict EXCEPT !.items = [k \in DOMAIN dict.items \ {key} |-> dict.items[k]]]]
  ELSE [result |-> Raise("KeyError", MissingKeyMessage(key)), after |-> dict]

\* data_from_dictionary(dictionary_data, key): the outcome, and the caller's
\* object after the call.
DataFromDictionary(dict, key) ==
  IF dict.type # "dict"
  THEN [result |-> Raise("TypeError",
                         <<"Invalid type sent to data_from_dictionary - ",
                           "Not a dictionary.">>),
        after |-> dict]
  ELSE IF key \in DOMAIN dict.items
  THEN [result |-> Return("object", dict.items[key]), after |-> dict]
  ELSE [result |-> Raise("KeyError", MissingKeyMessage(key)), after |-> dict]

\* A caller runs data_from_dictionary(dictionary_data, key) on its object.
CallGet ==
  /\ pc = "idle"
  /\ \E dict \in DictionaryArgs, key \in Keys :
       LET r == DataFromDictionary(dict, key)
       IN  /\ call' = [CallOf("data_from_dictionary", "", key, None, None)
                         EXCEPT !.method = dict.type]
           /\ result' = r.result
           /\ dictionary_data' = r.after
           /\ log' = <<[ev |-> "argument", dictionary_data |-> dict]>>
  /\ pc' = "done"
  /\ UNCHANGED <<fs, additional_diagnostics, idx>>

(* --------------------------- specifications --------------------------- *)

\* Calls that read no directory run against a file system without RootPath.
InitNoFiles ==
  /\ fs = [exists |-> FALSE, tree |-> [files |-> <<>>, dirs |-> <<>>]]
  /\ InitCall

Next == CallFind \/ CallResolve \/ ResolveStep \/ CallProcess \/ CallGet

Spec == Init /\ [][Next]_vars

\* The calls that read the directory tree.
NextFiles == CallFind \/ CallResolve \/ ResolveStep

SpecFiles == Init /\ [][NextFiles]_vars

SpecLoader == InitNoFiles /\ [][CallProcess]_vars

SpecAccessor == InitNoFiles /\ [][CallGet]_vars

(* ------------------------- what the claims read ------------------------ *)

Range(seq) == { seq[i] : i \in DOMAIN seq }

\* The events of one kind in the log, in order.
Events(kind) == SelectSeq(log, LAMBDA e : e.ev = kind)

Finished(op) == pc = "done" /\ call.op = op

RECURSIVE FilesUnder(_, _)

\* Every file of the subtree, as its directory's path and its own name.
FilesUnder(top, tree) ==
  { [dirpath |-> top, name |-> tree.files[i]] : i \in DOMAIN tree.files }
    \cup UNION { FilesUnder(PathJoin(top, tree.dirs[i].name), tree.dirs[i].tree)
                 : i \in DOMAIN tree.dirs }

\* The files a walk of the call's directory argument can see.
FilesSeen ==
  IF fs.exists /\ call.path = RootPath THEN FilesUnder(RootPath, fs.tree) ELSE {}

\* The paths of the files whose own name contains the name.
QualifyingPaths(name) ==
  { PathJoin(f.dirpath, f.name) : f \in { g \in FilesSeen : Contains(g.name, name) } }

(* ---------------------------------- C1 --------------------------------- *)

AllFound ==
  /\ \A k \in Range(LapseRateDiagnostics) : QualifyingPaths(k) # {}
  /\ \A i \in DOMAIN log : log[i].ev = "load" => log[i].ret.status = "return"

\* C1: get_method_prerequisites for 'model_level_temperature_lapse_rate', on a
\* tree where each of the three diagnostics has a file and every load
\* succeeds, returns a dict whose keys are exactly the three diagnostic names,
\* each mapped to the CubeList get_additional_diagnostics returned for it.
C1_PrerequisiteMapExact ==
  (Finished("get_method_prerequisites") /\ call.method = LapseRateMethod /\ AllFound)
    => /\ result.status = "return"
       /\ result.type = "dict"
       /\ DOMAIN result.value
            = {temperature_on_height_levels, pressure_on_height_levels, surface_pressure}
       /\ \A k \in DOMAIN result.value :
            \E i \in DOMAIN log :
              /\ log[i].ev = "get_additional_diagnostics"
              /\ log[i].filepath = <<k>>
              /\ log[i].ret = Return("CubeList", result.value[k])

C1_Witness ==
  /\ Finished("get_method_prerequisites")
  /\ call.method = LapseRateMethod
  /\ AllFound
  /\ result.type = "dict"
  /\ Len(result.value[temperature_on_height_levels]) = 1
  /\ Len(result.value[pressure_on_height_levels]) = 2
  /\ Len(result.value[surface_pressure]) = 1
  /\ result.value[surface_pressure] # result.value[temperature_on_height_levels]

(* ---------------------------------- C2 --------------------------------- *)

\* The finder calls of the current resolution, in order.
Finds == Events("get_additional_diagnostics")

\* C2: the diagnostics are looked up in the order temperature, pressure,
\* surface pressure; once one lookup fails it is the last thing the call did,
\* the call has ended, and its outcome is that failure and not a dict.
C2_FirstFailureAborts ==
  call.op = "get_method_prerequisites"
    => /\ Len(Finds) <= Len(LapseRateDiagnostics)
       /\ Len(Events("os.walk")) = Len(Finds)
       /\ \A i \in DOMAIN Finds : Finds[i].filepath = <<LapseRateDiagnostics[i]>>
       /\ \A i \in DOMAIN log :
            (log[i].ev = "get_additional_diagnostics" /\ log[i].ret.status = "raise")
              => /\ i = Len(log)
                 /\ pc = "done"
                 /\ result = log[i].ret
                 /\ result.type # "dict"

C2_Witness ==
  /\ Finished("get_method_prerequisites")
  /\ Len(Finds) = 2
  /\ Finds[1].ret.status = "return"
  /\ Finds[2].ret.status = "raise"
  /\ DOMAIN additional_diagnostics = {temperature_on_height_levels}
  /\ result.status = "raise"
  /\ QualifyingPaths(surface_pressure) # {}

(* ---------------------------------- C6 --------------------------------- *)

\* C6: for every method other than 'model_level_temperature_lapse_rate' and
\* every directory argument, get_method_prerequisites ends at once returning
\* None, with no directory walk and no load.
C6_UnknownMethodNoPrerequisites ==
  (call.op = "get_method_prerequisites" /\ call.method # LapseRateMethod)
    => /\ pc = "done"
       /\ result = Return("NoneType", <<>>)
       /\ log = <<>>

C6_Witness ==
  /\ Finished("get_method_prerequisites")
  /\ call.method = ""
  /\ call.path = NoSuchPath
  /\ result.type = "NoneType"

(* ---------------------------------- C3 --------------------------------- *)

\* C3: every CubeList get_additional_diagnostics returns is non-empty, with or
\* without a time constraint and whatever the load primitive yields.
C3_ReturnedCollectionNonEmpty ==
  (Finished("get_additional_diagnostics") /\ result.status = "return")
    => Len(result.value) > 0

(* ---------------------------------- C5 --------------------------------- *)

OnlyPressureMissing ==
  /\ Finished("get_method_prerequisites")
  /\ call.method = LapseRateMethod
  /\ QualifyingPaths(temperature_on_height_levels) # {}
  /\ QualifyingPaths(pressure_on_height_levels) = {}
  /\ QualifyingPaths(surface_pressure) # {}
  /\ Finds[1].ret.status = "return"

Loads == Events("load")

\* C8: with a time constraint and at least one qualifying file, the constraint
\* is applied to the CubeList the load returned: an empty extraction raises the
\* ValueError naming the constraint, otherwise the extraction (and not the full
\* CubeList) is returned; with no qualifying file the IOError is raised,
\* whatever the constraint.
C8_TimeFilterAfterLoad ==
  (Finished("get_additional_diagnostics") /\ call.time_extract # None)
    => /\ (QualifyingPaths(call.name) # {} /\ Loads[1].ret.status = "return")
            => LET kept == SelectSeq(Loads[1].ret.value,
                                     LAMBDA c : c.time = call.time_extract)
               IN  IF kept = <<>>
                   THEN /\ result.status = "raise"
                        /\ result.type = "ValueError"
                        /\ Contains(result.msg, call.time_extract)
                   ELSE result = Return("CubeList", kept)
       /\ QualifyingPaths(call.name) = {}
            => /\ result.type = "IOError"
               /\ Len(Loads) = 0

C8_Witness ==
  /\ Finished("get_additional_diagnostics")
  /\ call.time_extract = <<"t2">>
  /\ Len(Loads) = 1
  /\ Len(Loads[1].ret.value) = 2
  /\ result.status = "return"
  /\ Len(result.value) = 1
  /\ result.value[1].time = <<"t2">>

(* ---------------------------------- C9 --------------------------------- *)

\* The Load.process calls in the log, in order.
ProcessCalls == Events("Load.process")

\* C9: the files handed to the loader are exactly the files of the subtree
\* whose own name contains the diagnostic name (case-sensitively); a directory
\* name containing it qualifies nothing, and with no such file the call raises
\* the IOError and loads nothing.
C9_MatchOnFileNameOnly ==
  Finished("get_additional_diagnostics")
    => IF QualifyingPaths(call.name) = {}
       THEN result.type = "IOError" /\ Len(ProcessCalls) = 0
       ELSE /\ Len(ProcessCalls) = 1
            /\ Range(ProcessCalls[1].filepath) = QualifyingPaths(call.name)

\* The name occurs in the tree only as a directory's name (and, in another
\* case, in a file's name).
C9_Witness ==
  /\ Finished("get_additional_diagnostics")
  /\ call.name = pressure_on_height_levels
  /\ call.path = RootPath
  /\ \E f \in FilesSeen :
       /\ Contains(f.dirpath, pressure_on_height_levels)
       /\ f.name = <<"foo_", "Pressure", "_on_height_levels", ".nc">>
  /\ result.type = "IOError"

(* --------------------------------- C10 --------------------------------- *)

RECURSIVE PathsOf(_)

\* Every file path of a walk, in the order of the walk.
PathsOf(walk) ==
  IF Len(walk) = 0 THEN <<>>
  ELSE [i \in DOMAIN Head(walk).files |-> PathJoin(Head(walk).dirpath, Head(walk).files[i])]
         \o PathsOf(Tail(walk))

\* The qualifying paths in the order of the walk.
QualifyingInOrder(name) ==
  SelectSeq(PathsOf(OsWalk(fs, call.path)), LAMBDA p : p \in QualifyingPaths(name))

\* C10: with a qualifying file, get_additional_diagnostics makes exactly one
\* Load.process call, with 'multi_file', the qualifying paths in walk order and
\* no diagnostic filter, which loads once; without a time constraint the
\* outcome of that load is the outcome of the call.  With no qualifying file
\* nothing is loaded.
C10_OneMultiFileLoad ==
  Finished("get_additional_diagnostics")
    => IF QualifyingPaths(call.name) = {}
       THEN Len(ProcessCalls) = 0 /\ Len(Loads) = 0 /\ Len(Events("load_cube")) = 0
       ELSE /\ Len(ProcessCalls) = 1
            /\ ProcessCalls[1].method = "multi_file"
            /\ ProcessCalls[1].filepath = QualifyingInOrder(call.name)
            /\ ProcessCalls[1].diagnostic = None
            /\ Len(Loads) = 1
            /\ Len(Events("load_cube")) = 0
            /\ Loads[1].filepath = QualifyingInOrder(call.name)
            /\ Loads[1].diagnostic = None
            /\ call.time_extract = None => result = Loads[1].ret

C10_Witness ==
  /\ Finished("get_additional_diagnostics")
  /\ call.time_extract = None
  /\ Len(ProcessCalls) = 1
  /\ Len(ProcessCalls[1].filepath) = 2
  /\ result.status = "return"
  /\ Len(result.value) = 2

(* ---------------------------------- C4 --------------------------------- *)

\* C4: for every tag other than 'single_file' and 'multi_file', also one that
\* names another attribute of the object, Load.process raises the
\* AttributeError naming the tag and the class, and calls no load primitive.
C4_UnknownMethodForEveryOtherTag ==
  (Finished("Load.process") /\ call.method \notin {"single_file", "multi_file"})
    => /\ result.status = "raise"
       /\ result.type = "AttributeError"
       /\ Contains(result.msg, <<call.method>>)
       /\ Contains(result.msg, <<"Load">>)
       /\ Len(Loads) = 0
       /\ Len(Events("load_cube")) = 0

(* ---------------------------------- C7 --------------------------------- *)

\* The first argument as the caller passed it.
Passed == log[1].dictionary_data

\* C7: data_from_dictionary raises the TypeError for a first argument that is
\* no dict, whatever the key; raises the KeyError naming the key for a dict
\* without the key; returns the stored value for a dict with the key; and
\* leaves the caller's object as it was in all three cases.
C7_AccessorThreeOutcomes ==
  Finished("data_from_dictionary")
    => /\ dictionary_data = Passed
       /\ IF Passed.type # "dict"
          THEN result.status = "raise" /\ result.type = "TypeError"
          ELSE IF call.name \in DOMAIN Passed.items
          THEN result = Return("object", Passed.items[call.name])
          ELSE /\ result.status = "raise"
               /\ result.type = "KeyError"
               /\ Contains(result.msg, call.name)

C7_Witness ==
  /\ Finished("data_from_dictionary")
  /\ Passed.type = "dict"
  /\ Cardinality(DOMAIN Passed.items) = 2
  /\ call.name \in DOMAIN Passed.items
  /\ result.value = <<"cube_b">>
  /\ dictionary_data = Passed

====
